---- MODULE Spec2Model ----
(***************************************************************************)
(* Biogas monitoring sketch (src/main.ino): four analog sensors are        *)
(* sampled, converted to ppm / pH, classified against thresholds, shown    *)
(* on two LEDs and aggregated; the pH channel has a two-point calibration  *)
(* persisted in EEPROM.                                                    *)
(*                                                                         *)
(* Numbers.  An AVR float is modelled as a record                          *)
(*     [k |-> "fin", n |-> numerator, d |-> denominator]   (exact, d > 0)  *)
(*     [k |-> "inf", n |-> +1 or -1, d |-> 1]              (+inf, -inf)    *)
(*     [k |-> "nan", n |-> 0, d |-> 1]                     (NaN)           *)
(* with the IEEE-754 rules for the special values.  Finite arithmetic is   *)
(* exact rational arithmetic: the rounding of the 24-bit mantissa is not   *)
(* modelled.  pow(10, x) is evaluated in fixed point (see Pow10).          *)
(***************************************************************************)
EXTENDS Integers, Sequences, FiniteSets, TLC

(***************************************************************************)
(* float arithmetic                                                        *)
(***************************************************************************)
Abs(x) == IF x < 0 THEN -x ELSE x

RECURSIVE GCD(_, _)
GCD(a, b) == IF b = 0 THEN a ELSE GCD(b, a % b)

Fin(n, d) ==
    LET s == IF d < 0 THEN -1 ELSE 1
        g == GCD(Abs(n), Abs(d))
    IN  [k |-> "fin", n |-> (s * n) \div g, d |-> (s * d) \div g]

NaN  == [k |-> "nan", n |-> 0, d |-> 1]
PInf == [k |-> "inf", n |-> 1, d |-> 1]
NInf == [k |-> "inf", n |-> -1, d |-> 1]
Inf(s) == IF s < 0 THEN NInf ELSE PInf

isnan(x) == x.k = "nan"
IsFin(x) == x.k = "fin"
Sgn(x) == IF x.n < 0 THEN -1 ELSE IF x.n > 0 THEN 1 ELSE 0

FNeg(x) == [x EXCEPT !.n = -x.n]

FAdd(a, b) ==
    IF isnan(a) \/ isnan(b) THEN NaN
    ELSE IF a.k = "inf" /\ b.k = "inf" THEN (IF a.n = b.n THEN a ELSE NaN)
    ELSE IF a.k = "inf" THEN a
    ELSE IF b.k = "inf" THEN b
    ELSE LET g == GCD(a.d, b.d)
         IN  Fin(a.n * (b.d \div g) + b.n * (a.d \div g), (a.d \div g) * b.d)

FSub(a, b) == FAdd(a, FNeg(b))

FMul(a, b) ==
    IF isnan(a) \/ isnan(b) THEN NaN
    ELSE IF a.k = "inf" \/ b.k = "inf"
         THEN (IF Sgn(a) * Sgn(b) = 0 THEN NaN ELSE Inf(Sgn(a) * Sgn(b)))
    ELSE LET g1 == GCD(Abs(a.n), b.d)
             g2 == GCD(Abs(b.n), a.d)
         IN  Fin((a.n \div g1) * (b.n \div g2), (a.d \div g2) * (b.d \div g1))

\* A zero of the model is +0.0 (x - x is +0.0 under round-to-nearest).
FDiv(a, b) ==
    IF isnan(a) \/ isnan(b) THEN NaN
    ELSE IF a.k = "inf" THEN (IF b.k = "inf" THEN NaN
                              ELSE Inf(a.n * (IF b.n < 0 THEN -1 ELSE 1)))
    ELSE IF b.k = "inf" THEN Fin(0, 1)
    ELSE IF b.n = 0 THEN (IF a.n = 0 THEN NaN ELSE Inf(a.n))
    ELSE FMul(a, Fin(b.d, b.n))

\* a < b on floats: every comparison with NaN is false.
FLt(a, b) ==
    /\ ~isnan(a)
    /\ ~isnan(b)
    /\ IF a.k = "inf" THEN a.n < 0 /\ b # NInf
       ELSE IF b.k = "inf" THEN b.n > 0
       ELSE a.n * b.d < b.n * a.d

FGt(a, b) == FLt(b, a)
FLe(a, b) == ~isnan(a) /\ ~isnan(b) /\ ~FLt(b, a)
FGe(a, b) == FLe(b, a)

\* int -> float
I2F(i) == Fin(i, 1)

(***************************************************************************)
(* constants of the sketch                                                 *)
(***************************************************************************)
VOLTAGE_REF == 5
ADC_RESOLUTION == 1024
NUM_READINGS == 10
READING_DELAY == 100
MAIN_LOOP_DELAY == 3000

METHANE_WARNING_LEVEL == I2F(1000)
METHANE_DANGER_LEVEL == I2F(5000)
AMMONIA_WARNING_LEVEL == I2F(25)
AMMONIA_DANGER_LEVEL == I2F(50)
H2S_WARNING_LEVEL == I2F(10)
H2S_DANGER_LEVEL == I2F(20)

PH_MIN_OPTIMAL == Fin(65, 10)
PH_MAX_OPTIMAL == Fin(75, 10)
PH_MIN_ACCEPTABLE == I2F(6)
PH_MAX_ACCEPTABLE == I2F(8)

HIGH == TRUE
LOW == FALSE

(***************************************************************************)
(* pow(10, x).  x = i + f with i = floor(x); f is cut to 8 binary digits   *)
(* and 10^f is the product of the roots 10^(1/2^k), in thousandths,        *)
(* truncated after each factor.  Results of 10^6 and more are represented  *)
(* by 10^6, which is above every ceiling the sketch clamps to.             *)
(***************************************************************************)
Root10(k) ==
    CASE k = 1 -> 3162 [] k = 2 -> 1778 [] k = 3 -> 1334 [] k = 4 -> 1155
      [] k = 5 -> 1075 [] k = 6 -> 1037 [] k = 7 -> 1018 [] k = 8 -> 1009

RECURSIVE Mantissa(_, _, _)
Mantissa(q, k, m) ==
    IF k > 8 THEN m
    ELSE Mantissa(q, k + 1,
                  IF (q \div (2 ^ (8 - k))) % 2 = 1
                  THEN (m * Root10(k)) \div 1000 ELSE m)

RECURSIVE IPow10(_)
IPow10(i) == IF i = 0 THEN 1 ELSE 10 * IPow10(i - 1)

Pow10(x) ==
    IF isnan(x) THEN NaN
    ELSE IF x.k = "inf" THEN (IF x.n > 0 THEN PInf ELSE Fin(0, 1))
    ELSE LET i == x.n \div x.d
             q == ((x.n - i * x.d) * 256) \div x.d
             m == Mantissa(q, 1, 1000)
         IN  IF i >= 6 THEN I2F(1000000)
             ELSE IF i >= 0 THEN Fin(m * IPow10(i), 1000)
             ELSE Fin(m, 1000 * IPow10(-i))

(***************************************************************************)
(* Sensor Acquisition                                                      *)
(***************************************************************************)
\* The loop of readSensorAverage over the NUM_READINGS results of
\* analogRead, given as the sequence readings: <<sum, validReadings>>.
\* The loop with 1023 itself taken as out of range.
RECURSIVE SumValid_Below1023(_, _)
SumValid_Below1023(readings, i) ==
    IF i = 0 THEN <<0, 0>>
    ELSE LET acc == SumValid_Below1023(readings, i - 1)
             reading == readings[i]
         IN  IF reading >= 0 /\ reading < 1023
             THEN <<acc[1] + reading, acc[2] + 1>>
             ELSE acc

RECURSIVE SumValid(_, _)
SumValid(readings, i) ==
    IF i = 0 THEN <<0, 0>>
    ELSE LET acc == SumValid(readings, i - 1)
             reading == readings[i]
         IN  IF reading >= 0 /\ reading <= 1023
             THEN <<acc[1] + reading, acc[2] + 1>>
             ELSE acc

\* sum is never negative, so C's truncating division is \div.
readSensorAverage(readings) ==
    LET acc == SumValid(readings, NUM_READINGS)
        sum == acc[1]
        validReadings == acc[2]
    IN  IF validReadings = 0 THEN 0 ELSE sum \div validReadings

\* (raw / ADC_RESOLUTION) * VOLTAGE_REF
RawToVoltage(raw) ==
    FMul(FDiv(I2F(raw), I2F(ADC_RESOLUTION)), I2F(VOLTAGE_REF))

(***************************************************************************)
(* Concentration Converter                                                 *)
(***************************************************************************)
\* convertMQ4ToPPM with the dead zone of the other two sensors.
convertMQ4ToPPM_DeadZone03(voltage) ==
    IF FLe(voltage, Fin(3, 10)) THEN I2F(0)
    ELSE LET log_ppm == FDiv(FSub(voltage, Fin(45, 100)), Fin(3, 10))
             ppm == Pow10(log_ppm)
             ppm1 == IF FLt(ppm, I2F(0)) THEN I2F(0) ELSE ppm
         IN  IF FGt(ppm1, I2F(100000)) THEN I2F(100000) ELSE ppm1

convertMQ4ToPPM(voltage) ==
    IF FLe(voltage, Fin(4, 10)) THEN I2F(0)
    ELSE LET log_ppm == FDiv(FSub(voltage, Fin(45, 100)), Fin(3, 10))
             ppm == Pow10(log_ppm)
             ppm1 == IF FLt(ppm, I2F(0)) THEN I2F(0) ELSE ppm
         IN  IF FGt(ppm1, I2F(100000)) THEN I2F(100000) ELSE ppm1

convertMQ135ToPPM(voltage) ==
    IF FLe(voltage, Fin(3, 10)) THEN I2F(0)
    ELSE LET log_ppm == FDiv(FSub(voltage, Fin(4, 10)), Fin(35, 100))
             ppm == Pow10(log_ppm)
             ppm1 == IF FLt(ppm, I2F(0)) THEN I2F(0) ELSE ppm
         IN  IF FGt(ppm1, I2F(10000)) THEN I2F(10000) ELSE ppm1

convertMQ136ToPPM(voltage) ==
    IF FLe(voltage, Fin(3, 10)) THEN I2F(0)
    ELSE LET log_ppm == FDiv(FSub(voltage, Fin(42, 100)), Fin(32, 100))
             ppm == Pow10(log_ppm)
             ppm1 == IF FLt(ppm, I2F(0)) THEN I2F(0) ELSE ppm
         IN  IF FGt(ppm1, I2F(1000)) THEN I2F(1000) ELSE ppm1

convertToPH(voltage) ==
    LET neutralVoltage == Fin(250, 100)
        slope == Fin(-570, 100)
        ph == FAdd(I2F(7), FMul(slope, FSub(voltage, neutralVoltage)))
        ph1 == IF FLt(ph, I2F(0)) THEN I2F(0) ELSE ph
    IN  IF FGt(ph1, I2F(14)) THEN I2F(14) ELSE ph1

\* convertToPH_Calibrated without the two clamps of the calibrated branch.
convertToPH_Calibrated_NoClamp(voltage, rom) ==
    LET stored_slope == rom[0]
        stored_offset == rom[4]
    IN  IF /\ ~isnan(stored_slope)
           /\ ~isnan(stored_offset)
           /\ FGt(stored_slope, I2F(-10))
           /\ FLt(stored_slope, I2F(-3))
        THEN FAdd(FMul(stored_slope, voltage), stored_offset)
        ELSE convertToPH(voltage)

\* rom is the EEPROM: the floats stored at addresses 0, 4 and 8.
convertToPH_Calibrated(voltage, rom) ==
    LET stored_slope == rom[0]
        stored_offset == rom[4]
    IN  IF /\ ~isnan(stored_slope)
           /\ ~isnan(stored_offset)
           /\ FGt(stored_slope, I2F(-10))
           /\ FLt(stored_slope, I2F(-3))
        THEN LET ph == FAdd(FMul(stored_slope, voltage), stored_offset)
                 ph1 == IF FLt(ph, I2F(0)) THEN I2F(0) ELSE ph
             IN  IF FGt(ph1, I2F(14)) THEN I2F(14) ELSE ph1
        ELSE convertToPH(voltage)

\* The plausibility test of loadCalibrationData.
CalibrationAccepted(rom) ==
    LET stored_slope == rom[0]
        stored_offset == rom[4]
        stored_neutral == rom[8]
    IN  /\ ~isnan(stored_slope)
        /\ ~isnan(stored_offset)
        /\ FGt(stored_slope, I2F(-10))
        /\ FLt(stored_slope, I2F(-3))
        /\ FGt(stored_neutral, I2F(1))
        /\ FLt(stored_neutral, I2F(4))

\* The sampling loop of one calibration step: NUM_CAL_READINGS results of
\* analogRead(PH_PIN), each turned into (reading / 1023.0) * 5.0, summed
\* and divided by 20.0.
NUM_CAL_READINGS == 20

RECURSIVE CalSum(_, _)
CalSum(readings, i) ==
    IF i = 0 THEN I2F(0)
    ELSE FAdd(CalSum(readings, i - 1),
              FMul(FDiv(I2F(readings[i]), I2F(1023)), I2F(5)))

CalAverage(readings) ==
    FDiv(CalSum(readings, NUM_CAL_READINGS), I2F(NUM_CAL_READINGS))

\* slope and offset of the two-point line, as calibratePH computes them.
CalSlope(v7, v4) == FDiv(FSub(I2F(4), I2F(7)), FSub(v4, v7))
\* the offset with the sign of the product slipped
CalOffset_Plus(s, v7) == FAdd(I2F(7), FMul(s, v7))
CalOffset(s, v7) == FSub(I2F(7), FMul(s, v7))

(***************************************************************************)
(* Safety Classifier, indicator, recommendations, statistics               *)
(***************************************************************************)
\* checkSafetyLevels without the two assignments that clear the flags.
checkSafetyLevels_NoClear(w0, d0, m, a, h, ph) ==
    LET d2 == d0 \/ FGe(m, METHANE_DANGER_LEVEL)
        w2 == w0 \/ (~FGe(m, METHANE_DANGER_LEVEL) /\ FGe(m, METHANE_WARNING_LEVEL))
        d3 == d2 \/ FGe(a, AMMONIA_DANGER_LEVEL)
        w3 == w2 \/ (~FGe(a, AMMONIA_DANGER_LEVEL) /\ FGe(a, AMMONIA_WARNING_LEVEL))
        d4 == d3 \/ FGe(h, H2S_DANGER_LEVEL)
        w4 == w3 \/ (~FGe(h, H2S_DANGER_LEVEL) /\ FGe(h, H2S_WARNING_LEVEL))
        w5 == w4 \/ FLt(ph, PH_MIN_ACCEPTABLE) \/ FGt(ph, PH_MAX_ACCEPTABLE)
    IN  [warning |-> w5, danger |-> d4]

\* checkSafetyLevels with an unacceptable pH raising system_danger.
checkSafetyLevels_PhDanger(w0, d0, m, a, h, ph) ==
    LET bad == FLt(ph, PH_MIN_ACCEPTABLE) \/ FGt(ph, PH_MAX_ACCEPTABLE)
        d == \/ FGe(m, METHANE_DANGER_LEVEL)
             \/ FGe(a, AMMONIA_DANGER_LEVEL)
             \/ FGe(h, H2S_DANGER_LEVEL)
             \/ bad
        w == \/ (~FGe(m, METHANE_DANGER_LEVEL) /\ FGe(m, METHANE_WARNING_LEVEL))
             \/ (~FGe(a, AMMONIA_DANGER_LEVEL) /\ FGe(a, AMMONIA_WARNING_LEVEL))
             \/ (~FGe(h, H2S_DANGER_LEVEL) /\ FGe(h, H2S_WARNING_LEVEL))
    IN  [warning |-> w, danger |-> d]

\* checkSafetyLevels: the flags it leaves, w0 and d0 being the flags of
\* the previous cycle (cleared first).
checkSafetyLevels(w0, d0, m, a, h, ph) ==
    LET w1 == FALSE
        d1 == FALSE
        d2 == d1 \/ FGe(m, METHANE_DANGER_LEVEL)
        w2 == w1 \/ (~FGe(m, METHANE_DANGER_LEVEL) /\ FGe(m, METHANE_WARNING_LEVEL))
        d3 == d2 \/ FGe(a, AMMONIA_DANGER_LEVEL)
        w3 == w2 \/ (~FGe(a, AMMONIA_DANGER_LEVEL) /\ FGe(a, AMMONIA_WARNING_LEVEL))
        d4 == d3 \/ FGe(h, H2S_DANGER_LEVEL)
        w4 == w3 \/ (~FGe(h, H2S_DANGER_LEVEL) /\ FGe(h, H2S_WARNING_LEVEL))
        w5 == w4 \/ FLt(ph, PH_MIN_ACCEPTABLE) \/ FGt(ph, PH_MAX_ACCEPTABLE)
    IN  [warning |-> w5, danger |-> d4]

\* showRecommendations advising on methane from the danger level only
showRecommendations_MethaneFromDanger(m, a, h, ph) ==
    \/ FLt(m, I2F(200))
    \/ FGt(m, METHANE_DANGER_LEVEL)
    \/ FGt(a, AMMONIA_WARNING_LEVEL)
    \/ FGt(h, H2S_WARNING_LEVEL)
    \/ FLt(ph, PH_MIN_OPTIMAL)
    \/ FGt(ph, PH_MAX_OPTIMAL)

\* showRecommendations: the value of hasRecommendation at its end.
showRecommendations(m, a, h, ph) ==
    \/ FLt(m, I2F(200))
    \/ FGt(m, METHANE_WARNING_LEVEL)
    \/ FGt(a, AMMONIA_WARNING_LEVEL)
    \/ FGt(h, H2S_WARNING_LEVEL)
    \/ FLt(ph, PH_MIN_OPTIMAL)
    \/ FGt(ph, PH_MAX_OPTIMAL)

\* the running maximum overwritten by the latest value
FMax_Latest(old, new) == new
FMax(old, new) == IF FGt(new, old) THEN new ELSE old
FMin(old, new) == IF FLt(new, old) THEN new ELSE old

\* resetStatistics with min_ph zeroed like the other fields
resetStatistics_MinPhZero ==
    [total_readings |-> 0, max_methane |-> I2F(0), max_ammonia |-> I2F(0),
     max_h2s |-> I2F(0), min_ph |-> I2F(0), max_ph |-> I2F(0)]

\* resetStatistics: the values it assigns to the statistics.
resetStatistics ==
    [total_readings |-> 0, max_methane |-> I2F(0), max_ammonia |-> I2F(0),
     max_h2s |-> I2F(0), min_ph |-> I2F(14), max_ph |-> I2F(0)]

(***************************************************************************)
(* bounds of the model                                                     *)
(***************************************************************************)
MaxReadings == 2   \* cycles displayed before the model stops counting
MaxCalRuns == 1    \* CAL commands accepted in one behaviour
HoldCap == 1000    \* red_hold_ms saturates here (ms)

Min(a, b) == IF a < b THEN a ELSE b

(***************************************************************************)
(* environment: what analogRead returns                                    *)
(***************************************************************************)
MQ4_PIN == "A0"
MQ135_PIN == "A1"
MQ136_PIN == "A2"
PH_PIN == "A3"

\* n readings: k times a, then b.
Mix(a, k, b, n) == [i \in 1..n |-> IF i <= k THEN a ELSE b]
Steady(r) == Mix(r, NUM_READINGS, r, NUM_READINGS)
Probe(m, a, h, p) ==
    (MQ4_PIN :> Steady(m)) @@ (MQ135_PIN :> Steady(a))
        @@ (MQ136_PIN :> Steady(h)) @@ (PH_PIN :> Steady(p))

\* One cycle's readings of the four pins.  Methane: 0 is in the dead zone,
\* 250 is 200..1000 ppm, 300 is a warning, 330 a danger; ammonia: 100 safe,
\* 190 warning, 210 danger; H2S: 100 safe, 160 warning, 180 danger; pH on
\* the default curve: 512 is 7.0, 540 is 6.2, 584 is 5.0, 440 is 9.0.
CycleInputs ==
    { Probe(250, 100, 100, 512), Probe(0, 100, 100, 512),
      Probe(300, 100, 100, 512), Probe(330, 100, 100, 512),
      Probe(250, 190, 100, 512), Probe(250, 210, 100, 512),
      Probe(250, 100, 160, 512), Probe(250, 100, 180, 512),
      Probe(250, 100, 100, 540), Probe(250, 100, 100, 584),
      Probe(250, 100, 100, 440), Probe(330, 190, 160, 584),
      Probe(300, 210, 100, 512), Probe(300, 100, 180, 440),
      Probe(250, 190, 100, 584) }

\* The 20 readings of one calibration step, by their average.
Cal250 == Mix(511, 10, 512, NUM_CAL_READINGS)   \* 2.50 V
Cal300 == Mix(613, 4, 614, NUM_CAL_READINGS)    \* 3.00 V
Cal350 == Mix(716, 18, 717, NUM_CAL_READINGS)   \* 3.50 V
CalInputs == {Cal250, Cal300, Cal350}

\* A calibration step in which the probe holds one raw value.
CalSteady(r) == Mix(r, NUM_CAL_READINGS, r, NUM_CAL_READINGS)
CalSteady7 == {CalSteady(512)}
CalSteady4 == {CalSteady(614), CalSteady(717)}

\* Cycles around a calibration: the gases at rest, the probe at 2.50 V
\* (raw 512) or near 3.00 V (raw 614).
CalCycleInputs == { Probe(250, 100, 100, 512), Probe(250, 100, 100, 614) }

\* Readings for readSensorAverage alone: every pin sees k times a, then b,
\* with a and b in and around the ADC range.
AvgValues == {-1, 0, 7, 512, 1022, 1023, 1024}
AvgInputs ==
    { [pin \in {MQ4_PIN, MQ135_PIN, MQ136_PIN, PH_PIN}
          |-> Mix(a, k, b, NUM_READINGS)] :
      a \in AvgValues, b \in AvgValues, k \in 1..NUM_READINGS }

\* Readings for one cycle's classification and advice: every raw value on
\* one pin with the other three at rest, and every combination of the raw
\* values next to a threshold (methane 200, 1000, 5000 ppm; ammonia 25,
\* 50 ppm; H2S 10, 20 ppm; pH 8.0, 7.5, 6.5, 6.0 on the default curve).
AdviceInputs ==
    { Probe(r, 100, 100, 512) : r \in 0..1023 }
    \cup { Probe(250, r, 100, 512) : r \in 0..1023 }
    \cup { Probe(250, 100, r, 512) : r \in 0..1023 }
    \cup { Probe(250, 100, 100, r) : r \in 0..1023 }
    \cup { Probe(m, a, h, p) : m \in {233, 234, 276, 277, 319, 320},
                              a \in {100, 182, 183, 203, 204},
                              h \in {100, 151, 152, 171, 172},
                              p \in {476, 477, 494, 495, 512, 529, 530,
                                     547, 548} }

\* EEPROM contents: erased cells read as NaN; PriorCal is what an earlier
\* calibration at 2.50 V / 3.00 V left behind.
Rom(s, o, n) == (0 :> s) @@ (4 :> o) @@ (8 :> n)
Erased == Rom(NaN, NaN, NaN)
PriorCal == Rom(I2F(-6), I2F(22), Fin(5, 2))

\* EEPROM contents for the converter alone: any three floats of these.
ConvSlopes == {NaN, NInf, I2F(-10), I2F(-5), I2F(-3), I2F(-1)}
ConvOffsets == {NaN, PInf, NInf, I2F(20)}
ConvNeutrals == {NaN, Fin(1, 2), Fin(5, 2)}
ConvRoms ==
    { Rom(s, o, n) : s \in ConvSlopes, o \in ConvOffsets, n \in ConvNeutrals }

(***************************************************************************)
(* state                                                                   *)
(***************************************************************************)
VARIABLES
    pc,                 \* where the sketch is
    adc,                \* the readings analogRead gave in the last cycle, by pin
    mq4_raw, mq135_raw, mq136_raw, ph_raw,
    mq4_voltage, mq135_voltage, mq136_voltage, ph_voltage,
    methane_ppm, ammonia_ppm, h2s_ppm, ph_value,
    system_warning, system_danger,
    total_readings, max_methane, max_ammonia, max_h2s, min_ph, max_ph,
    hasRecommendation,  \* the local of showRecommendations, at its end
    led_green, led_red, \* levels of LED_GREEN_PIN and LED_RED_PIN
    red_hold_ms,        \* how long LED_RED_PIN has kept its level
    eeprom,             \* floats at addresses 0, 4, 8
    ph7_voltage, ph4_voltage, slope, offset,   \* locals of calibratePH
    cal_runs,           \* CAL commands so far
    rom_old, rom_new,   \* EEPROM before the last calibration, and its result
    torn,               \* power was lost between the writes of a calibration
    seen,               \* converted values updateStatistics has taken in
                        \* since the statistics were last initialized
    was_reset           \* this is the first cycle after a RESET that
                        \* followed readings

raws == <<adc, mq4_raw, mq135_raw, mq136_raw, ph_raw,
          mq4_voltage, mq135_voltage, mq136_voltage, ph_voltage>>
converted == <<methane_ppm, ammonia_ppm, h2s_ppm, ph_value>>
flags == <<system_warning, system_danger>>
stats == <<total_readings, max_methane, max_ammonia, max_h2s, min_ph, max_ph>>
leds == <<led_green, led_red, red_hold_ms>>
locals == <<ph7_voltage, ph4_voltage, slope, offset>>
history == <<cal_runs, rom_old, rom_new, torn, seen, was_reset>>
vars == <<pc, raws, converted, flags, stats, hasRecommendation, leds, eeprom,
          locals, history>>

\* RAM after the initializers of the globals and setup() (testLEDs leaves
\* both LEDs off), but for pc and the readings.
RamRest ==
    /\ methane_ppm = I2F(0) /\ ammonia_ppm = I2F(0)
    /\ h2s_ppm = I2F(0) /\ ph_value = I2F(0)
    /\ system_warning = FALSE /\ system_danger = FALSE
    /\ total_readings = 0
    /\ max_methane = I2F(0) /\ max_ammonia = I2F(0) /\ max_h2s = I2F(0)
    /\ min_ph = I2F(14) /\ max_ph = I2F(0)
    /\ hasRecommendation = FALSE
    /\ led_green = LOW /\ led_red = LOW /\ red_hold_ms = HoldCap
    /\ ph7_voltage = I2F(0) /\ ph4_voltage = I2F(0)
    /\ slope = I2F(0) /\ offset = I2F(0)
    /\ cal_runs = 0
    /\ rom_old = eeprom /\ rom_new = eeprom
    /\ torn = FALSE
    /\ seen = {}
    /\ was_reset = FALSE

\* Power-on, loop() being at p.
Boot(p) ==
    /\ eeprom \in {Erased, PriorCal}
    /\ pc = p
    /\ adc = Probe(0, 0, 0, 0)
    /\ mq4_raw = 0 /\ mq135_raw = 0 /\ mq136_raw = 0 /\ ph_raw = 0
    /\ mq4_voltage = I2F(0) /\ mq135_voltage = I2F(0)
    /\ mq136_voltage = I2F(0) /\ ph_voltage = I2F(0)
    /\ RamRest

\* loop() is about to run for the first time.
Init == Boot("cmd")

\* The first readAllSensors is about to run.
AvgInit == Boot("read")

\* The converter alone: readAllSensors has left the raw average r on every
\* channel, and the EEPROM holds any record of ConvRoms.
ConvInit ==
    /\ eeprom \in ConvRoms
    /\ pc = "convert"
    /\ \E r \in 0..1023 :
          /\ adc = Probe(r, r, r, r)
          /\ mq4_raw = r /\ mq135_raw = r /\ mq136_raw = r /\ ph_raw = r
          /\ mq4_voltage = RawToVoltage(r)
          /\ mq135_voltage = RawToVoltage(r)
          /\ mq136_voltage = RawToVoltage(r)
          /\ ph_voltage = RawToVoltage(r)
    /\ RamRest

(***************************************************************************)
(* delays: LED_RED_PIN keeps its level while the sketch waits              *)
(***************************************************************************)
Held(ms) == Min(red_hold_ms + ms, HoldCap)

(***************************************************************************)
(* loop(): checkSerialCommands                                             *)
(***************************************************************************)
\* Serial.available() == 0
CmdNone ==
    /\ pc = "cmd"
    /\ pc' = "read"
    /\ UNCHANGED <<raws, converted, flags, stats, hasRecommendation, leds,
                   eeprom, locals, history>>

\* "CAL": calibratePH starts and waits for Enter with the probe in pH 7.0.
CmdCal ==
    /\ pc = "cmd"
    /\ cal_runs < MaxCalRuns
    /\ cal_runs' = cal_runs + 1
    /\ pc' = "cal7"
    /\ UNCHANGED <<raws, converted, flags, stats, hasRecommendation, leds,
                   eeprom, locals, rom_old, rom_new, torn, seen, was_reset>>

\* "RESET": resetStatistics
CmdReset ==
    /\ pc = "cmd"
    /\ total_readings' = resetStatistics.total_readings
    /\ max_methane' = resetStatistics.max_methane
    /\ max_ammonia' = resetStatistics.max_ammonia
    /\ max_h2s' = resetStatistics.max_h2s
    /\ min_ph' = resetStatistics.min_ph
    /\ max_ph' = resetStatistics.max_ph
    /\ seen' = {}
    /\ was_reset' = (total_readings > 0)
    /\ pc' = "read"
    /\ UNCHANGED <<raws, converted, flags, hasRecommendation, leds, eeprom,
                   locals, cal_runs, rom_old, rom_new, torn>>

\* systemDiagnostics converting the pH again, with the default curve
CmdDiag_Converts ==
    /\ pc = "cmd"
    /\ ph_value' = convertToPH(ph_voltage)
    /\ pc' = "read"
    /\ UNCHANGED <<raws, methane_ppm, ammonia_ppm, h2s_ppm, flags, stats,
                   hasRecommendation, leds, eeprom, locals, history>>

\* "DIAG": systemDiagnostics only reports.
CmdDiag ==
    /\ pc = "cmd"
    /\ pc' = "read"
    /\ UNCHANGED <<raws, converted, flags, stats, hasRecommendation, leds,
                   eeprom, locals, history>>

\* "HELP": printHelp
CmdHelp ==
    /\ pc = "cmd"
    /\ pc' = "read"
    /\ UNCHANGED <<raws, converted, flags, stats, hasRecommendation, leds,
                   eeprom, locals, history>>

\* any other line: an error message and a hint
CmdUnknown ==
    /\ pc = "cmd"
    /\ pc' = "read"
    /\ UNCHANGED <<raws, converted, flags, stats, hasRecommendation, leds,
                   eeprom, locals, history>>

(***************************************************************************)
(* calibratePH                                                             *)
(***************************************************************************)
\* Enter received; 20 readings in the pH 7.0 buffer, 100 ms apart.
CalSample7(Inputs) ==
    /\ pc = "cal7"
    /\ \E readings \in Inputs : ph7_voltage' = CalAverage(readings)
    /\ red_hold_ms' = Held(NUM_CAL_READINGS * 100)
    /\ pc' = "cal4"
    /\ UNCHANGED <<raws, converted, flags, stats, hasRecommendation,
                   led_green, led_red, eeprom, ph4_voltage, slope, offset,
                   history>>

\* Enter received; 20 readings in the pH 4.0 buffer; slope and offset.
CalSample4(Inputs) ==
    /\ pc = "cal4"
    /\ \E readings \in Inputs : ph4_voltage' = CalAverage(readings)
    /\ slope' = CalSlope(ph7_voltage, ph4_voltage')
    /\ offset' = CalOffset(slope', ph7_voltage)
    /\ red_hold_ms' = Held(NUM_CAL_READINGS * 100)
    /\ rom_old' = eeprom
    /\ rom_new' = Rom(slope', offset', ph7_voltage)
    /\ torn' = FALSE
    /\ pc' = "put0"
    /\ UNCHANGED <<raws, converted, flags, stats, hasRecommendation,
                   led_green, led_red, eeprom, ph7_voltage, cal_runs, seen,
                   was_reset>>

\* EEPROM.put(0, slope)
CalPutSlope ==
    /\ pc = "put0"
    /\ eeprom' = [eeprom EXCEPT ![0] = slope]
    /\ pc' = "put4"
    /\ UNCHANGED <<raws, converted, flags, stats, hasRecommendation, leds,
                   locals, history>>

\* EEPROM.put(4, offset)
CalPutOffset ==
    /\ pc = "put4"
    /\ eeprom' = [eeprom EXCEPT ![4] = offset]
    /\ pc' = "put8"
    /\ UNCHANGED <<raws, converted, flags, stats, hasRecommendation, leds,
                   locals, history>>

\* EEPROM.put(8, ph7_voltage); calibratePH and checkSerialCommands return.
CalPutNeutral ==
    /\ pc = "put8"
    /\ eeprom' = [eeprom EXCEPT ![8] = ph7_voltage]
    /\ pc' = "read"
    /\ UNCHANGED <<raws, converted, flags, stats, hasRecommendation, leds,
                   locals, history>>

(***************************************************************************)
(* loop(): the acquisition cycle                                           *)
(***************************************************************************)
\* readAllSensors: four calls of readSensorAverage, 10 readings each,
\* READING_DELAY apart.
ReadAllSensors(Inputs) ==
    /\ pc = "read"
    /\ total_readings < MaxReadings
    /\ \E in \in Inputs :
          /\ adc' = in
          /\ mq4_raw' = readSensorAverage(in[MQ4_PIN])
          /\ mq135_raw' = readSensorAverage(in[MQ135_PIN])
          /\ mq136_raw' = readSensorAverage(in[MQ136_PIN])
          /\ ph_raw' = readSensorAverage(in[PH_PIN])
    /\ mq4_voltage' = RawToVoltage(mq4_raw')
    /\ mq135_voltage' = RawToVoltage(mq135_raw')
    /\ mq136_voltage' = RawToVoltage(mq136_raw')
    /\ ph_voltage' = RawToVoltage(ph_raw')
    /\ red_hold_ms' = Held(4 * NUM_READINGS * READING_DELAY)
    /\ pc' = "convert"
    /\ UNCHANGED <<converted, flags, stats, hasRecommendation, led_green,
                   led_red, eeprom, locals, history>>

ConvertSensorValues ==
    /\ pc = "convert"
    /\ methane_ppm' = convertMQ4ToPPM(mq4_voltage)
    /\ ammonia_ppm' = convertMQ135ToPPM(mq135_voltage)
    /\ h2s_ppm' = convertMQ136ToPPM(mq136_voltage)
    /\ ph_value' = convertToPH_Calibrated(ph_voltage, eeprom)
    /\ pc' = "display"
    /\ UNCHANGED <<raws, flags, stats, hasRecommendation, leds, eeprom,
                   locals, history>>

\* displayResults prints; ++total_readings is its one assignment.
DisplayResults ==
    /\ pc = "display"
    /\ total_readings' = total_readings + 1
    /\ pc' = "safety"
    /\ UNCHANGED <<raws, converted, flags, max_methane, max_ammonia, max_h2s,
                   min_ph, max_ph, hasRecommendation, leds, eeprom, locals,
                   history>>

CheckSafetyLevels ==
    /\ pc = "safety"
    /\ LET f == checkSafetyLevels(system_warning, system_danger, methane_ppm,
                                  ammonia_ppm, h2s_ppm, ph_value)
       IN  /\ system_warning' = f.warning
           /\ system_danger' = f.danger
    /\ pc' = "leds"
    /\ UNCHANGED <<raws, converted, stats, hasRecommendation, leds, eeprom,
                   locals, history>>

\* digitalWrite(LED_RED_PIN, level): the hold time restarts when the level
\* changes.
RedWrite(level, hold) == IF level = led_red THEN hold ELSE 0

\* controlLEDs, to its return.  Danger: red HIGH, green LOW, 100 ms, red
\* LOW, 100 ms, red HIGH, 100 ms, red LOW, 100 ms.
ControlLEDs ==
    /\ pc = "leds"
    /\ IF system_danger
       THEN /\ led_red' = LOW
            /\ led_green' = LOW
            /\ red_hold_ms' = Min(100, HoldCap)
       ELSE IF system_warning
       THEN /\ led_red' = HIGH
            /\ led_green' = LOW
            /\ red_hold_ms' = RedWrite(HIGH, red_hold_ms)
       ELSE /\ led_green' = HIGH
            /\ led_red' = LOW
            /\ red_hold_ms' = RedWrite(LOW, red_hold_ms)
    /\ pc' = "recommend"
    /\ UNCHANGED <<raws, converted, flags, stats, hasRecommendation, eeprom,
                   locals, history>>

ShowRecommendations ==
    /\ pc = "recommend"
    /\ hasRecommendation' =
           showRecommendations(methane_ppm, ammonia_ppm, h2s_ppm, ph_value)
    /\ pc' = "stats"
    /\ UNCHANGED <<raws, converted, flags, stats, leds, eeprom, locals,
                   history>>

UpdateStatistics ==
    /\ pc = "stats"
    /\ max_methane' = FMax(max_methane, methane_ppm)
    /\ max_ammonia' = FMax(max_ammonia, ammonia_ppm)
    /\ max_h2s' = FMax(max_h2s, h2s_ppm)
    /\ max_ph' = FMax(max_ph, ph_value)
    /\ min_ph' = FMin(min_ph, ph_value)
    /\ seen' = seen \cup {converted}
    /\ pc' = "delay"
    /\ UNCHANGED <<raws, converted, flags, total_readings, hasRecommendation,
                   leds, eeprom, locals, cal_runs, rom_old, rom_new, torn,
                   was_reset>>

\* showStatistics every tenth reading (prints only), the separator line
\* and delay(MAIN_LOOP_DELAY).
MainLoopDelay ==
    /\ pc = "delay"
    /\ red_hold_ms' = Held(MAIN_LOOP_DELAY)
    /\ was_reset' = FALSE
    /\ pc' = "cmd"
    /\ UNCHANGED <<raws, converted, flags, stats, hasRecommendation,
                   led_green, led_red, eeprom, locals, cal_runs, rom_old,
                   rom_new, torn, seen>>

(***************************************************************************)
(* power                                                                   *)
(***************************************************************************)
\* Power is lost and comes back: RAM is initialized again and setup()
\* runs; the EEPROM keeps what was written.
PowerLoss ==
    /\ pc' = "cmd"
    /\ adc' = Probe(0, 0, 0, 0)
    /\ mq4_raw' = 0 /\ mq135_raw' = 0 /\ mq136_raw' = 0 /\ ph_raw' = 0
    /\ mq4_voltage' = I2F(0) /\ mq135_voltage' = I2F(0)
    /\ mq136_voltage' = I2F(0) /\ ph_voltage' = I2F(0)
    /\ methane_ppm' = I2F(0) /\ ammonia_ppm' = I2F(0)
    /\ h2s_ppm' = I2F(0) /\ ph_value' = I2F(0)
    /\ system_warning' = FALSE /\ system_danger' = FALSE
    /\ total_readings' = 0
    /\ max_methane' = I2F(0) /\ max_ammonia' = I2F(0) /\ max_h2s' = I2F(0)
    /\ min_ph' = I2F(14) /\ max_ph' = I2F(0)
    /\ hasRecommendation' = FALSE
    /\ led_green' = LOW /\ led_red' = LOW /\ red_hold_ms' = HoldCap
    /\ ph7_voltage' = I2F(0) /\ ph4_voltage' = I2F(0)
    /\ slope' = I2F(0) /\ offset' = I2F(0)
    /\ torn' = (torn \/ pc \in {"put4", "put8"})
    /\ seen' = {}
    /\ was_reset' = FALSE
    /\ UNCHANGED <<eeprom, cal_runs, rom_old, rom_new>>

\* One step of the sketch, the environment giving the readings of a cycle
\* from Cyc and those of the two calibration steps from Cal7 and Cal4.
Step(Cyc, Cal7, Cal4) ==
    \/ CmdNone \/ CmdCal \/ CmdReset \/ CmdDiag \/ CmdHelp \/ CmdUnknown
    \/ CalSample7(Cal7) \/ CalSample4(Cal4)
    \/ CalPutSlope \/ CalPutOffset \/ CalPutNeutral
    \/ ReadAllSensors(Cyc) \/ ConvertSensorValues \/ DisplayResults
    \/ CheckSafetyLevels \/ ControlLEDs \/ ShowRecommendations
    \/ UpdateStatistics \/ MainLoopDelay
    \/ PowerLoss

\* The sketch with the gases and the pH moving, calibrated (if at all) in
\* the 2.50 V and 3.00 V buffers.
Next == Step(CycleInputs, {Cal250}, {Cal300})
Spec == Init /\ [][Next]_vars

\* The sketch with the gases at rest, calibrated in any two of the buffers.
NextCal == Step(CalCycleInputs, CalInputs, CalInputs)
SpecCal == Init /\ [][NextCal]_vars

\* The sketch with the gases at rest and the probe holding one raw value
\* through each calibration step and each cycle.
NextSteady == Step(CalCycleInputs, CalSteady7, CalSteady4)
SpecSteady == Init /\ [][NextSteady]_vars

\* readAllSensors alone, on readings in and around the ADC range.
NextAvg == ReadAllSensors(AvgInputs)
SpecAvg == AvgInit /\ [][NextAvg]_vars

\* convertSensorValues alone, on every raw average and EEPROM record.
NextConv == ConvertSensorValues
SpecConv == ConvInit /\ [][NextConv]_vars

\* One cycle from readAllSensors to showRecommendations, on readings at and
\* between the thresholds.
NextAdvice ==
    \/ ReadAllSensors(AdviceInputs) \/ ConvertSensorValues \/ DisplayResults
    \/ CheckSafetyLevels \/ ControlLEDs \/ ShowRecommendations
SpecAdvice == AvgInit /\ [][NextAdvice]_vars

(***************************************************************************)
(* Properties                                                              *)
(***************************************************************************)
\* Severity as a number: 0 Safe, 1 Warning, 2 Danger.
Level(warning, danger) == IF danger THEN 2 ELSE IF warning THEN 1 ELSE 0
Overall == Level(system_warning, system_danger)

GasLevel(v, warn, dang) ==
    IF FGe(v, I2F(dang)) THEN 2 ELSE IF FGe(v, I2F(warn)) THEN 1 ELSE 0
PhLevel(ph) == IF FLt(ph, I2F(6)) \/ FGt(ph, I2F(8)) THEN 1 ELSE 0
Max4(a, b, c, d) ==
    LET x == IF a > b THEN a ELSE b
        y == IF c > d THEN c ELSE d
    IN  IF x > y THEN x ELSE y
ExpectedLevel(m, a, h, ph) ==
    Max4(GasLevel(m, 1000, 5000), GasLevel(a, 25, 50), GasLevel(h, 10, 20),
         PhLevel(ph))

\* Gas values to raise a channel to, and pH values to try.
GasProbes == {I2F(0), I2F(9), I2F(10), I2F(20), I2F(25), I2F(49), I2F(50),
              I2F(999), I2F(1000), I2F(4999), I2F(5000), I2F(100000)}
PhProbes == {I2F(0), I2F(5), Fin(599, 100), I2F(6), I2F(7), I2F(8),
             Fin(801, 100), I2F(14)}
LevelAt(m, a, h, ph) ==
    LET f == checkSafetyLevels(system_warning, system_danger, m, a, h, ph)
    IN  Level(f.warning, f.danger)

\* C1: right after checkSafetyLevels, whatever the flags were before, the
\* overall level is the highest channel level (gas: Danger from the danger
\* threshold, Warning from the warning threshold; pH: Warning outside
\* [6, 8]), and raising one gas value alone never lowers it.
C1_OverallIsMaxOfChannels ==
    pc = "leds" =>
        /\ Overall = ExpectedLevel(methane_ppm, ammonia_ppm, h2s_ppm, ph_value)
        /\ \A g \in GasProbes :
              /\ FGe(g, methane_ppm) =>
                     LevelAt(g, ammonia_ppm, h2s_ppm, ph_value) >= Overall
              /\ FGe(g, ammonia_ppm) =>
                     LevelAt(methane_ppm, g, h2s_ppm, ph_value) >= Overall
              /\ FGe(g, h2s_ppm) =>
                     LevelAt(methane_ppm, ammonia_ppm, g, ph_value) >= Overall

\* The second cycle finds everything safe after a first cycle that saw
\* methane at a danger level.
C1_Witness ==
    /\ pc = "leds"
    /\ total_readings = 2
    /\ FGe(max_methane, I2F(5000))
    /\ Overall = 0

\* C2: with the three gases below their danger thresholds the overall level
\* is not Danger, for the pH read and for any pH in [0, 14], and it is
\* Warning when the pH is outside [6.0, 8.0].
C2_PhNeverDanger ==
    (/\ pc = "leds"
     /\ FLt(methane_ppm, I2F(5000))
     /\ FLt(ammonia_ppm, I2F(50))
     /\ FLt(h2s_ppm, I2F(20)))
    => /\ ~system_danger
       /\ (FLt(ph_value, I2F(6)) \/ FGt(ph_value, I2F(8))) => Overall = 1
       /\ \A p \in PhProbes :
             LevelAt(methane_ppm, ammonia_ppm, h2s_ppm, p) # 2

\* pH 5.0 with every gas safe: Warning, not Danger.
C2_Witness ==
    /\ pc = "leds"
    /\ FLt(ph_value, I2F(6))
    /\ FLt(methane_ppm, I2F(1000))
    /\ FLt(ammonia_ppm, I2F(25))
    /\ FLt(h2s_ppm, I2F(10))
    /\ system_warning
    /\ ~system_danger

\* controlLEDs has returned in this cycle and has not been called again.
AfterControlLEDs ==
    \/ pc \in {"recommend", "stats", "delay"}
    \/ pc = "cmd" /\ total_readings >= 1

\* C3: from the return of controlLEDs to its next call the two outputs show
\* the level of the cycle: Safe green on and red off, Warning red on and
\* green off, Danger green off and red blinking (its level never kept for
\* more than the blink period of 200 ms).
C3_IndicatorShowsLevel ==
    AfterControlLEDs =>
        IF system_danger THEN led_green = LOW /\ red_hold_ms <= 200
        ELSE IF system_warning THEN led_red = HIGH /\ led_green = LOW
        ELSE led_green = HIGH /\ led_red = LOW

\* The fixed default curve, 7.0 + (-5.70) * (voltage - 2.50) in [0, 14],
\* and a line slope * voltage + offset in [0, 14].
Clamp14(x) ==
    IF FLt(x, I2F(0)) THEN I2F(0) ELSE IF FGt(x, I2F(14)) THEN I2F(14) ELSE x
DefaultCurve(v) ==
    Clamp14(FAdd(I2F(7), FMul(Fin(-57, 10), FSub(v, Fin(25, 10)))))
Line(s, o, v) == Clamp14(FAdd(FMul(s, v), o))
InOpen(x, lo, hi) == FGt(x, I2F(lo)) /\ FLt(x, I2F(hi))

\* A record that is absent or invalid: a NaN field, a slope outside
\* (-10, -3) or a neutral voltage outside (1.0, 4.0).
RecordInvalid(rom) ==
    \/ isnan(rom[0]) \/ isnan(rom[4]) \/ isnan(rom[8])
    \/ ~InOpen(rom[0], -10, -3)
    \/ ~InOpen(rom[8], 1, 4)

\* C4: with an absent or invalid record in EEPROM the pH conversion gives
\* the value of the fixed default curve.
C4_InvalidRecordFallsBack ==
    (pc = "display" /\ RecordInvalid(eeprom))
    => ph_value = DefaultCurve(ph_voltage)

\* A calibration run with two different averages has been completed and
\* its locals are still there.
CalDone ==
    /\ pc \notin {"cal7", "cal4", "put0", "put4", "put8"}
    /\ cal_runs > 0
    /\ ph4_voltage # ph7_voltage
    /\ eeprom = Rom(slope, offset, ph7_voltage)

\* The line through (v7, 7.0) and (v4, 4.0).
TwoPointSlope(v7, v4) == FDiv(I2F(-3), FSub(v4, v7))
TwoPointOffset(v7, v4) == FSub(I2F(7), FMul(TwoPointSlope(v7, v4), v7))

\* C5 as stated: after a calibration run with v4 # v7 the record is the
\* two-point line and every pH conversion uses it, so that v7 gives 7.0
\* and v4 gives 4.0.
C5_CalibratedLineAlwaysUsed ==
    CalDone =>
        /\ eeprom[0] = TwoPointSlope(ph7_voltage, ph4_voltage)
        /\ eeprom[4] = TwoPointOffset(ph7_voltage, ph4_voltage)
        /\ convertToPH_Calibrated(ph7_voltage, eeprom) = I2F(7)
        /\ convertToPH_Calibrated(ph4_voltage, eeprom) = I2F(4)
        /\ pc = "display" => ph_value = Line(eeprom[0], eeprom[4], ph_voltage)

\* C5 amended: the record is the two-point line; conversions use it when
\* its slope is in (-10, -3), and then v7 gives 7.0 and v4 gives 4.0;
\* otherwise they use the default curve.  v7 = 2.50 V and v4 = 3.50 V give
\* slope -3.0 and offset 14.5, which the converter does not use: 2.50 V
\* gives 7.0 and 3.50 V gives 1.3 on the default curve.
C5_CalibratedLineUsedWhenPlausible ==
    CalDone =>
        /\ eeprom[0] = TwoPointSlope(ph7_voltage, ph4_voltage)
        /\ eeprom[4] = TwoPointOffset(ph7_voltage, ph4_voltage)
        /\ IF InOpen(eeprom[0], -10, -3)
           THEN /\ convertToPH_Calibrated(ph7_voltage, eeprom) = I2F(7)
                /\ convertToPH_Calibrated(ph4_voltage, eeprom) = I2F(4)
                /\ pc = "display" =>
                       ph_value = Line(eeprom[0], eeprom[4], ph_voltage)
           ELSE /\ convertToPH_Calibrated(ph7_voltage, eeprom)
                       = DefaultCurve(ph7_voltage)
                /\ convertToPH_Calibrated(ph4_voltage, eeprom)
                       = DefaultCurve(ph4_voltage)
                /\ pc = "display" => ph_value = DefaultCurve(ph_voltage)
        /\ (ph7_voltage = Fin(5, 2) /\ ph4_voltage = Fin(7, 2)) =>
               /\ eeprom[0] = I2F(-3)
               /\ eeprom[4] = Fin(145, 10)
               /\ convertToPH_Calibrated(Fin(5, 2), eeprom) = I2F(7)
               /\ convertToPH_Calibrated(Fin(7, 2), eeprom) = Fin(13, 10)

\* Calibrated at 2.50 V and 3.00 V (slope -6, offset 22), then a cycle
\* with the probe at 2.50 V (raw 512) converts to pH 7.0 on that line.
C5_Witness ==
    /\ CalDone
    /\ pc = "display"
    /\ eeprom = Rom(I2F(-6), I2F(22), Fin(5, 2))
    /\ ph4_voltage = I2F(3)
    /\ ph_raw = 512
    /\ ph_value = I2F(7)

\* A calibration run whose two averages are equal is past its sampling.
DegenerateRun ==
    /\ pc \in {"put0", "put4", "put8", "read"}
    /\ cal_runs > 0
    /\ FGt(ph7_voltage, I2F(0))
    /\ ph4_voltage = ph7_voltage

\* C6: a calibration run with v4 = v7 writes nothing: the record in EEPROM
\* stays what it was before the run, and no infinite or NaN slope is
\* stored by it.
C6_DegenerateWritesNothing ==
    DegenerateRun =>
        /\ eeprom = rom_old
        /\ (eeprom[0] # rom_old[0] => IsFin(eeprom[0]))

\* C7: after a power loss between the writes of a calibration run the
\* record in EEPROM is the old one, the new one, or one the plausibility
\* check rejects and the converter does not use.
C7_NoTornRecordAccepted ==
    torn =>
        \/ eeprom = rom_old
        \/ eeprom = rom_new
        \/ ~CalibrationAccepted(eeprom)

\* The truncated mean of the readings within lo..hi, 0 when there is none.
RECURSIVE SumOver(_, _)
SumOver(readings, I) ==
    IF I = {} THEN 0
    ELSE LET i == CHOOSE j \in I : TRUE
         IN  readings[i] + SumOver(readings, I \ {i})
MeanWithin(readings, lo, hi) ==
    LET I == {i \in DOMAIN readings : readings[i] >= lo /\ readings[i] <= hi}
    IN  IF I = {} THEN 0 ELSE SumOver(readings, I) \div Cardinality(I)
AllEqual(readings, v) == \A i \in DOMAIN readings : readings[i] = v

\* C8 as stated: each raw average is the truncated mean of the readings in
\* 0..1022 (a reading of 1023 does not count), 0 when there is none.
C8_MeanOfReadingsBelow1023 ==
    pc = "convert" =>
        /\ mq4_raw = MeanWithin(adc[MQ4_PIN], 0, 1022)
        /\ mq135_raw = MeanWithin(adc[MQ135_PIN], 0, 1022)
        /\ mq136_raw = MeanWithin(adc[MQ136_PIN], 0, 1022)
        /\ ph_raw = MeanWithin(adc[PH_PIN], 0, 1022)

\* C8 amended: each raw average is the truncated mean of the readings in
\* 0..1023 (1023 counts; only readings outside 0..1023 are discarded), 0
\* when there is none, and v when all ten readings are v in 0..1023.
C8_MeanOfReadingsUpTo1023 ==
    pc = "convert" =>
        /\ mq4_raw = MeanWithin(adc[MQ4_PIN], 0, 1023)
        /\ mq135_raw = MeanWithin(adc[MQ135_PIN], 0, 1023)
        /\ mq136_raw = MeanWithin(adc[MQ136_PIN], 0, 1023)
        /\ ph_raw = MeanWithin(adc[PH_PIN], 0, 1023)
        /\ \A v \in 0..1023 : AllEqual(adc[PH_PIN], v) => ph_raw = v

\* Readings of 1024 are dropped and the readings of 1023 are averaged.
C8_Witness ==
    /\ pc = "convert"
    /\ \E i \in DOMAIN adc[PH_PIN] : adc[PH_PIN][i] = 1024
    /\ \E i \in DOMAIN adc[PH_PIN] : adc[PH_PIN][i] = 1023
    /\ ph_raw = 1023

InRange(x, hi) == FGe(x, I2F(0)) /\ FLe(x, I2F(hi))

\* C9: the converted values are always within their ranges: methane in
\* [0, 100000], ammonia in [0, 10000], H2S in [0, 1000] ppm, pH in [0, 14].
C9_ConvertedWithinRange ==
    /\ InRange(methane_ppm, 100000)
    /\ InRange(ammonia_ppm, 10000)
    /\ InRange(h2s_ppm, 1000)
    /\ InRange(ph_value, 14)

\* A conversion where both clamps act: methane at its ceiling, and a
\* calibrated line below 0 held at pH 0.
C9_Witness ==
    /\ pc = "display"
    /\ methane_ppm = I2F(100000)
    /\ h2s_ppm = I2F(1000)
    /\ eeprom[0] = I2F(-5)
    /\ eeprom[4] = I2F(20)
    /\ ph_value = I2F(0)

\* C10: a gas voltage at or below the dead zone of its channel (methane
\* 0.40 V, ammonia 0.30 V, H2S 0.30 V) converts to exactly 0 ppm, and a
\* voltage above it to the positive value of the response curve.
C10_DeadZoneIsZero ==
    pc = "display" =>
        /\ FLe(mq4_voltage, Fin(40, 100)) => methane_ppm = I2F(0)
        /\ FLe(mq135_voltage, Fin(30, 100)) => ammonia_ppm = I2F(0)
        /\ FLe(mq136_voltage, Fin(30, 100)) => h2s_ppm = I2F(0)
        /\ FGt(mq4_voltage, Fin(40, 100)) => FGt(methane_ppm, I2F(0))
        /\ FGt(mq135_voltage, Fin(30, 100)) => FGt(ammonia_ppm, I2F(0))
        /\ FGt(mq136_voltage, Fin(30, 100)) => FGt(h2s_ppm, I2F(0))

\* Between the two dead zones: methane is 0 while ammonia and H2S are not.
C10_Witness ==
    /\ pc = "display"
    /\ FGt(mq4_voltage, Fin(30, 100))
    /\ FLe(mq4_voltage, Fin(40, 100))
    /\ methane_ppm = I2F(0)
    /\ FGt(ammonia_ppm, I2F(0))

\* C11: after RESET, or after power-on, the first cycle's update leaves
\* count 1, every gas maximum at that cycle's value and both pH extremes
\* at that cycle's pH, whatever the statistics held before the RESET: the
\* result of one update of the power-on state (0, 0, 0, 0, 14.0, 0.0).
C11_ResetThenUpdateIsFreshUpdate ==
    (pc = "delay" /\ total_readings = 1)
    => /\ max_methane = methane_ppm
       /\ max_ammonia = ammonia_ppm
       /\ max_h2s = h2s_ppm
       /\ min_ph = ph_value
       /\ max_ph = ph_value

\* A safe cycle after a RESET that followed readings with an alarm: the
\* earlier maxima are gone.
C11_Witness ==
    /\ pc = "delay"
    /\ was_reset
    /\ total_readings = 1
    /\ Overall = 0
    /\ FLt(max_methane, I2F(1000))
    /\ FLt(ph_value, I2F(7))

\* The maxima and the pH extremes bound the four values c.
Covers(c) ==
    /\ FGe(max_methane, c[1])
    /\ FGe(max_ammonia, c[2])
    /\ FGe(max_h2s, c[3])
    /\ FLe(min_ph, c[4])
    /\ FLe(c[4], max_ph)

\* A step that is neither a RESET nor a power-on.
NoReset == ~CmdReset /\ ~PowerLoss

\* C12: on every step that is not a reset, the count goes up by one in
\* displayResults and is unchanged elsewhere, no gas maximum and no max_ph
\* goes down and min_ph does not go up; after a cycle's update the count is
\* at least the number of different values taken in since the reset, and
\* the maxima and the pH extremes bound every one of them.
C12_StatisticsMonotone ==
    /\ [](pc \in {"delay", "cmd"} => \A c \in seen : Covers(c))
    /\ [](pc \in {"delay", "cmd"} => Cardinality(seen) <= total_readings)
    /\ [](pc = "delay" => converted \in seen)
    /\ [][NoReset =>
            /\ total_readings' = total_readings + (IF pc = "display"
                                                   THEN 1 ELSE 0)
            /\ FGe(max_methane', max_methane)
            /\ FGe(max_ammonia', max_ammonia)
            /\ FGe(max_h2s', max_h2s)
            /\ FGe(max_ph', max_ph)
            /\ FLe(min_ph', min_ph)
            /\ (pc = "stats" => Covers(converted)')]_vars

\* The second cycle since the reset, after a first with the higher methane
\* and the lower pH.
C12_Witness ==
    /\ pc = "delay"
    /\ total_readings = 2
    /\ Cardinality(seen) = 2
    /\ FGt(max_methane, methane_ppm)
    /\ FLt(min_ph, ph_value)
    /\ FGe(max_ph, ph_value)

\* C13: only convertSensorValues (and a power-on) writes methane_ppm,
\* ammonia_ppm, h2s_ppm or ph_value: every other step of the cycle and every
\* console command leaves them alone, so the flags, the recommendation and
\* the statistics of a cycle all come from the same four values.
C13_ConvertedValuesFrame ==
    /\ [][(pc # "convert" /\ ~PowerLoss) => UNCHANGED converted]_vars
    /\ [](pc \in {"leds", "recommend", "stats", "delay"} =>
            Overall = ExpectedLevel(methane_ppm, ammonia_ppm, h2s_ppm,
                                    ph_value))
    /\ [](pc \in {"stats", "delay"} =>
            (hasRecommendation <=>
                \/ FLt(methane_ppm, I2F(200)) \/ FGt(methane_ppm, I2F(1000))
                \/ FGt(ammonia_ppm, I2F(25)) \/ FGt(h2s_ppm, I2F(10))
                \/ FLt(ph_value, Fin(65, 10)) \/ FGt(ph_value, Fin(75, 10))))
    /\ [](pc = "delay" => Covers(converted))

\* A calibration has just replaced the record: the pH of the cycle before
\* it stands as it was converted, though the new record would give another.
C13_Witness ==
    /\ pc = "read"
    /\ cal_runs = 1
    /\ ~torn
    /\ eeprom = rom_new
    /\ total_readings = 1
    /\ max_ph = ph_value
    /\ ph_value = convertToPH_Calibrated(ph_voltage, rom_old)
    /\ ph_value # convertToPH_Calibrated(ph_voltage, eeprom)

\* C14: showRecommendations reports "no recommendation" exactly when
\* methane is in [200, 1000] ppm, ammonia at most 25 ppm, H2S at most
\* 10 ppm and pH in [6.5, 7.5]; and a cycle classified Warning or Danger
\* has a recommendation.
C14_NoRecommendationIffOptimal ==
    pc = "stats" =>
        /\ (~hasRecommendation <=>
                /\ FGe(methane_ppm, I2F(200)) /\ FLe(methane_ppm, I2F(1000))
                /\ FLe(ammonia_ppm, I2F(25))
                /\ FLe(h2s_ppm, I2F(10))
                /\ FGe(ph_value, Fin(65, 10)) /\ FLe(ph_value, Fin(75, 10)))
        /\ (Overall >= 1 => hasRecommendation)

\* The first raw reading above the methane warning threshold, everything
\* else at its best: Warning, and a recommendation.
C14_Witness ==
    /\ pc = "stats"
    /\ mq4_raw = 277
    /\ Overall = 1
    /\ hasRecommendation
    /\ FLe(ammonia_ppm, I2F(25))
    /\ FLe(h2s_ppm, I2F(10))
    /\ FGe(ph_value, Fin(65, 10)) /\ FLe(ph_value, Fin(75, 10))

\* C15: when the probe gave the same raw value r through step 1 of a
\* calibration and through a later cycle, and loadCalibrationData would
\* accept the record that calibration stored, the cycle's pH is 7.0.
C15_SameRawReadsNeutral ==
    (/\ pc = "display"
     /\ CalDone
     /\ CalibrationAccepted(eeprom)
     /\ \E r \in 0..1023 :
           /\ ph7_voltage = CalAverage(CalSteady(r))
           /\ AllEqual(adc[PH_PIN], r))
    => ph_value = I2F(7)

====
